---- MODULE Spec2Model ----
(***************************************************************************)
(* Model of src/agent_travaux.py: the agentic loop run_agent, the tool     *)
(* dispatcher executer_outil, the three tool handlers, the process-wide    *)
(* journal _journal_chantier and the command-line entry point main.        *)
(*                                                                         *)
(* JSON values supplied by the completion service are tagged records:      *)
(*   Str(s) a JSON string, Num(n) a JSON integer, Arr the empty JSON list  *)
(* A Python dict that keeps insertion order (the journal) is a sequence of *)
(* <<key, value>> pairs.  A JSON document produced by json.dumps is the    *)
(* record [json |-> v], v being the frozen value the text encodes.         *)
(***************************************************************************)
EXTENDS Integers, Sequences, FiniteSets, TLC

\* ---------------------------------------------------------------- bounds
MaxN == 2            \* largest --max-iterations value explored
MaxBlocks == 2       \* most content blocks in one response that asks for tools
MaxTotalBlocks == 2  \* most content blocks over all tool_use responses of a process
MaxRuns == 2         \* most run_agent calls in one process

\* ------------------------------------------------------------ JSON values
Str(s) == [t |-> "str", s |-> s]
Num(n) == [t |-> "num", n |-> n]
Arr == [t |-> "arr"]

IsNum(v) == v.t = "num"
\* str and list are the sequence types
IsSeq(v) == v.t \in {"str", "arr"}
\* type(v).__name__
TypeName(v) == IF v.t = "str" THEN "str" ELSE IF v.t = "arr" THEN "list" ELSE "int"
\* hash(v) succeeds: a list is unhashable (TypeError as a dict key)
Hashable(v) == v.t # "arr"

\* ------------------------------------------------------- Python dict model
DictKeys(d) == {d[i][1] : i \in 1..Len(d)}
DictHas(d, k) == \E i \in 1..Len(d) : d[i][1] = k
DictGet(d, k) == d[CHOOSE i \in 1..Len(d) : d[i][1] = k][2]

\* d[k] = v : overwrite in place when the key exists, else insert at the end
DictSetAppendOnly(d, k, v) == Append(d, <<k, v>>)
DictSetLocalCopy(d, k, v) == d
DictSetFresh(d, k, v) == <<<<k, v>>>>
DictSet(d, k, v) ==
    IF DictHas(d, k)
    THEN [i \in 1..Len(d) |-> IF d[i][1] = k THEN <<k, v>> ELSE d[i]]
    ELSE Append(d, <<k, v>>)

\* -------------------------------------------------------- Python operators
\* s * n on a string: n copies of s, none when n <= 0
RECURSIVE Repeat(_, _)
Repeat(s, n) == IF n <= 0 THEN "" ELSE s \o Repeat(s, n - 1)
SeqTimes(v, n) == IF v.t = "str" THEN Str(Repeat(v.s, n)) ELSE Arr

\* a * b: the product of two integers, a sequence repeated by an integer on
\* either side, TypeError naming the right operand for two sequences
Mul(a, b) ==
    IF IsNum(a) /\ IsNum(b) THEN [ok |-> TRUE, value |-> Num(a.n * b.n)]
    ELSE IF IsNum(b) THEN [ok |-> TRUE, value |-> SeqTimes(a, b.n)]
    ELSE IF IsNum(a) THEN [ok |-> TRUE, value |-> SeqTimes(b, a.n)]
    ELSE [ok |-> FALSE,
          erreur |-> IF b.t = "str"
                     THEN "can't multiply sequence by non-int of type 'str'"
                     ELSE "can't multiply sequence by non-int of type 'list'"]

\* str(v), as an f-string renders a value
PyStr(v) == IF v.t = "str" THEN v.s ELSE IF v.t = "num" THEN ToString(v.n) ELSE "[]"

\* f"{n:,}".replace(",", " "): digits in groups of three
RECURSIVE Grouped(_)
Grouped(n) ==
    IF n < 0 THEN "-" \o Grouped(0 - n)
    ELSE IF n < 1000 THEN ToString(n)
    ELSE LET r == n % 1000
         IN  Grouped(n \div 1000) \o " "
             \o (IF r < 10 THEN "00" ELSE IF r < 100 THEN "0" ELSE "") \o ToString(r)

\* ------------------------------------------------------------ lookup tables
\* _DENSITES, in tenths of t/m3; .get(materiau, 1.8)
Densite10(materiau) ==
    IF materiau = Str("terre") THEN 18
    ELSE IF materiau = Str("beton") THEN 24
    ELSE IF materiau = Str("eau") THEN 10
    ELSE IF materiau = Str("gravier") THEN 16
    ELSE 18

\* _COUTS_RESEAU; .get(type_reseau, [200, 500])
CoutsReseau(type_reseau) ==
    IF type_reseau = Str("eau_potable") THEN <<150, 350>>
    ELSE IF type_reseau = Str("assainissement") THEN <<200, 500>>
    ELSE IF type_reseau = Str("pluvial") THEN <<180, 420>>
    ELSE IF type_reseau = Str("telecom") THEN <<80, 180>>
    ELSE <<200, 500>>

\* ---------------------------------------------------------- tool handlers
\* A handler call yields [ok |-> TRUE, resultat, journal] when it returns and
\* [ok |-> FALSE, erreur, journal] when it raises (erreur abbreviates str(e)).
Returns(resultat, j) == [ok |-> TRUE, resultat |-> resultat, journal |-> j]
Raises(msg, j) == [ok |-> FALSE, erreur |-> msg, journal |-> j]

Arg(input, p, default) == IF p \in DOMAIN input THEN input[p] ELSE default

\* line 155 multiplies left to right, line 156 hashes materiau, line 157
\* multiplies the volume by the density, a float
calculer_volume(input, j) ==
    LET l == input["longueur_m"]
        w == input["largeur_m"]
        p == input["profondeur_m"]
        materiau == Arg(input, "materiau", Str("terre"))
        lw == Mul(l, w)
        volume_m3 == IF lw.ok THEN Mul(lw.value, p) ELSE lw
    IN  IF ~volume_m3.ok
        THEN Raises(volume_m3.erreur, j)
        ELSE IF ~Hashable(materiau)
        THEN Raises("unhashable type: 'list'", j)
        ELSE IF IsSeq(volume_m3.value)
        THEN Raises("can't multiply sequence by non-int of type 'float'", j)
        ELSE Returns([volume_m3 |-> volume_m3.value.n,
                      masse_t10 |-> volume_m3.value.n * Densite10(materiau),
                      materiau |-> materiau,
                      dimensions |-> PyStr(l) \o "m x " \o PyStr(w) \o "m x "
                                     \o PyStr(p) \o "m"], j)

\* math.sqrt(diametre_mm / 200) for diameters 200 * k * k
SqrtRatio(d) == CHOOSE k \in 0..d : 200 * k * k = d

estimer_cout_reseau(input, j) ==
    LET type_reseau == input["type_reseau"]
        longueur_m == input["longueur_m"]
        diametre_mm == Arg(input, "diametre_mm", Num(200))
    IN  IF ~Hashable(type_reseau)
        THEN Raises("unhashable type: 'list'", j)
        ELSE IF diametre_mm.t = "str"
        THEN Raises("unsupported operand type(s) for /: 'str' and 'int'", j)
        ELSE IF diametre_mm.t = "arr"
        THEN Raises("unsupported operand type(s) for /: 'list' and 'int'", j)
        ELSE IF diametre_mm.n < 0
        THEN Raises("math domain error", j)
        ELSE IF IsSeq(longueur_m)
        THEN Raises("can't multiply sequence by non-int of type 'float'", j)
        ELSE LET fourchette == CoutsReseau(type_reseau)
                 coeff_diam == SqrtRatio(diametre_mm.n)
                 cout_min == fourchette[1] * longueur_m.n * coeff_diam
                 cout_max == fourchette[2] * longueur_m.n * coeff_diam
             IN  Returns([type_reseau |-> type_reseau,
                          longueur_m |-> longueur_m,
                          diametre_mm |-> diametre_mm,
                          cout_min_ht |-> Grouped(cout_min) \o " EUR HT",
                          cout_max_ht |-> Grouped(cout_max) \o " EUR HT",
                          note |-> "Fourniture et pose, hors VRD et deviations"], j)

\* The returned dict holds a reference to the global journal, not a copy:
\* field journal_ref names the dict it points to.
memo_chantierWriteThenRaise(input, j) ==
    Raises("valeur", DictSet(j, input["cle"], input["valeur"]))
memo_chantier(input, j) ==
    LET cle == input["cle"]
        valeur == input["valeur"]
    IN  IF ~Hashable(cle)
        THEN Raises("unhashable type: 'list'", j)
        ELSE Returns([status |-> "memorise", cle |-> cle,
                      journal_ref |-> "_journal_chantier"],
                     DictSet(j, cle, valeur))

\* _TOOL_REGISTRY
ToolRegistryAnyCase == {"calculer_volume", "estimer_cout_reseau", "memo_chantier",
                        "Memo_Chantier"}
ToolRegistry == {"calculer_volume", "estimer_cout_reseau", "memo_chantier"}

Required(tool_name) ==
    IF tool_name = "calculer_volume" THEN {"longueur_m", "largeur_m", "profondeur_m"}
    ELSE IF tool_name = "estimer_cout_reseau" THEN {"type_reseau", "longueur_m"}
    ELSE {"cle", "valeur"}

Optional(tool_name) ==
    IF tool_name = "calculer_volume" THEN {"materiau"}
    ELSE IF tool_name = "estimer_cout_reseau" THEN {"diametre_mm"}
    ELSE {}

\* fn(**tool_input): keyword binding, then the handler body.  A keyword the
\* function does not have is reported before a missing parameter; erreur
\* leaves out the function and parameter names of str(e).
CallHandler(tool_name, input, j) ==
    IF ~(DOMAIN input \subseteq Required(tool_name) \cup Optional(tool_name))
    THEN Raises("got an unexpected keyword argument", j)
    ELSE IF ~(Required(tool_name) \subseteq DOMAIN input)
    THEN Raises("missing required positional argument", j)
    ELSE IF tool_name = "calculer_volume" THEN calculer_volume(input, j)
    ELSE IF tool_name = "estimer_cout_reseau" THEN estimer_cout_reseau(input, j)
    ELSE memo_chantier(input, j)

\* json.dumps writes a dict key that is a number as a string
JsonKey(k) == IF k.t = "num" THEN Str(ToString(k.n)) ELSE k
JsonObject(d) == [i \in 1..Len(d) |-> <<JsonKey(d[i][1]), d[i][2]>>]

\* json.dumps: the text is fixed at the time of the call, so a reference to the
\* journal is written out as the journal's contents at that time.
JsonDumpsKeepRef(obj, j) == [json |-> obj]
JsonDumps(obj, j) ==
    [json |-> IF "journal_ref" \in DOMAIN obj
              THEN [status |-> obj.status, cle |-> obj.cle, journal |-> JsonObject(j)]
              ELSE obj]

\* executer_outil: [result_str, journal]
executer_outil(tool_name, tool_input, j) ==
    IF tool_name \notin ToolRegistry
    THEN [result_str |-> JsonDumps([erreur |-> <<"Outil inconnu : ", tool_name>>], j),
          journal |-> j]
    ELSE LET r == CallHandler(tool_name, tool_input, j)
         IN  IF r.ok
             THEN [result_str |-> JsonDumps(r.resultat, r.journal), journal |-> r.journal]
             ELSE [result_str |-> JsonDumps([erreur |-> r.erreur, outil |-> tool_name,
                                             input |-> tool_input], r.journal),
                   journal |-> r.journal]

\* ------------------------------------------------- completion-service input
Task == "mission"
Sentinel == "Agent arrete : limite d'iterations atteinte."

TextBlock(s) == [type |-> "text", text |-> s]
ToolUse(name, input) == [type |-> "tool_use", name |-> name, input |-> input]

\* tool invocations the service may request
ToolCalls ==
    { ToolUse("memo_chantier", [cle |-> Str("k1"), valeur |-> Str("v1")]),
      ToolUse("memo_chantier", [cle |-> Str("k1"), valeur |-> Str("v2")]),
      ToolUse("memo_chantier", [cle |-> Str("k2"), valeur |-> Num(5)]),
      ToolUse("memo_chantier", [cle |-> Num(5), valeur |-> Str("v1")]),
      ToolUse("memo_chantier", [cle |-> Str("k1")]),
      ToolUse("memo_chantier", [cle |-> Arr, valeur |-> Str("v1")]),
      ToolUse("Memo_Chantier", [cle |-> Str("k1"), valeur |-> Str("v1")]),
      ToolUse("calculer_volume", [longueur_m |-> Num(10), largeur_m |-> Num(4),
                                  profondeur_m |-> Num(2), materiau |-> Num(5)]),
      ToolUse("estimer_cout_reseau", [type_reseau |-> Str("eau_potable"),
                                      longueur_m |-> Num(100)]),
      ToolUse("estimer_cout_reseau", [type_reseau |-> Str("pluvial"),
                                      longueur_m |-> Num(100), diametre_mm |-> Num(-200)]) }

\* blocks of a response that asks for tools
ToolUseBlocks == ToolCalls \cup {TextBlock("T")}

\* contents of a response that ends the loop
FinalContents ==
    LET memo == ToolUse("memo_chantier", [cle |-> Str("k1"), valeur |-> Str("v1")])
    IN  { <<>>,
          <<TextBlock("")>>,
          <<TextBlock("T")>>,
          <<TextBlock(""), TextBlock("T")>>,
          <<TextBlock("T"), TextBlock("U")>>,
          <<memo>>,
          <<memo, TextBlock("T")>> }

\* the service gives every tool_use block of the conversation a fresh id
Stamp(block, id) ==
    IF block.type = "tool_use"
    THEN [type |-> "tool_use", id |-> id, name |-> block.name, input |-> block.input]
    ELSE block
Content(blocks, it) == [k \in 1..Len(blocks) |-> Stamp(blocks[k], 10 * it + k)]

UnexpectedSignals == {"max_tokens", "stop_sequence"}
TransportFailures == {"AuthenticationError", "RateLimitError", "APIConnectionError"}

\* ------------------------------------------------------------------ state
VARIABLES
    api_key,          \* os.getenv("ANTHROPIC_API_KEY") is set
    max_iterations,   \* args.max_iterations / run_agent's max_iterations
    pc,               \* "main", "while", "create", "returned", "raised", "exit"
    messages,         \* run_agent's transcript
    iteration,        \* run_agent's iteration counter
    reponse_finale,   \* run_agent's reponse_finale
    response,         \* last response received: [stop_reason, content]
    journal_chantier, \* the module-level dict _journal_chantier
    requests,         \* number of client.messages.create calls made
    received,         \* number of responses client.messages.create returned
    sent,             \* the messages argument of the last create call
    ret,              \* run_agent's return value, or the exception it raised
    stdout,           \* what run_agent printed about the delivery
    exit_code,        \* main's return value, -1 while running
    runs,             \* number of run_agent calls made in this process
    earlier_blocks    \* content blocks of the tool_use responses of earlier calls

vars == <<api_key, max_iterations, pc, messages, iteration, reponse_finale, response,
          journal_chantier, requests, received, sent, ret, stdout, exit_code, runs,
          earlier_blocks>>

NoResponse == [stop_reason |-> "none", content |-> <<>>]
NoReturn == [kind |-> "none"]

Init ==
    /\ api_key \in BOOLEAN
    /\ max_iterations \in -1..MaxN
    /\ pc = "main"
    /\ messages = <<>>
    /\ iteration = 0
    /\ reponse_finale = ""
    /\ response = NoResponse
    /\ journal_chantier = <<>>
    /\ requests = 0
    /\ received = 0
    /\ sent = <<>>
    /\ ret = NoReturn
    /\ stdout = <<>>
    /\ exit_code = -1
    /\ runs = 0
    /\ earlier_blocks = 0

\* ---------------------------------------------------------- run_agent parts
\* the first block that has a text attribute, "" when there is none
FirstTextIndex(content) ==
    CHOOSE k \in 1..Len(content) :
        /\ content[k].type = "text"
        /\ \A m \in 1..(k - 1) : content[m].type # "text"
HasText(content) == \E k \in 1..Len(content) : content[k].type = "text"

ExtractText(content, rf) ==
    IF HasText(content) THEN content[FirstTextIndex(content)].text ELSE rf

\* lines 375-380: the value run_agent returns once the loop is left
PostLoopNoCheck(it, maxit, rf) == rf
PostLoop(it, maxit, rf) ==
    IF it >= maxit /\ rf = "" THEN Sentinel ELSE rf

\* line 346
IsToolUse(block) == block.type = "tool_use"

\* lines 358-362
ToolResultNoId(block, result_str) ==
    [type |-> "tool_result", tool_use_id |-> 0, content |-> result_str]
ToolResult(block, result_str) ==
    [type |-> "tool_result", tool_use_id |-> block.id, content |-> result_str]

\* every invocation run against the journal as it was when the response came
ToolLoopStale(content, k, j, tool_results) ==
    LET uses == SelectSeq(content, IsToolUse)
        Run(i) == executer_outil(uses[i].name, uses[i].input, j)
    IN  [journal |-> IF uses = <<>> THEN j ELSE Run(Len(uses)).journal,
         tool_results |-> [i \in 1..Len(uses) |-> ToolResult(uses[i], Run(i).result_str)]]

\* lines 343-362: run the requested tools in order, collecting the results
RECURSIVE ToolLoop(_, _, _, _)
ToolLoop(content, k, j, tool_results) ==
    IF k > Len(content)
    THEN [journal |-> j, tool_results |-> tool_results]
    ELSE IF IsToolUse(content[k])
    THEN LET r == executer_outil(content[k].name, content[k].input, j)
         IN  ToolLoop(content, k + 1, r.journal,
                      Append(tool_results, ToolResult(content[k], r.result_str)))
    ELSE ToolLoop(content, k + 1, j, tool_results)

\* lines 337-340, 365-368: the assistant turn, then the tool-result turn
AppendTurnsNoAssistant(msgs, content, tool_results) ==
    msgs \o <<[role |-> "user", content |-> tool_results]>>
AppendTurns(msgs, content, tool_results) ==
    msgs \o <<[role |-> "assistant", content |-> content],
              [role |-> "user", content |-> tool_results]>>

\* number of blocks of the tool_use responses recorded in the transcript
RECURSIVE TotalBlocks(_)
TotalBlocks(msgs) ==
    IF msgs = <<>> THEN 0
    ELSE (IF msgs[1].role = "assistant" THEN Len(msgs[1].content) ELSE 0)
         + TotalBlocks(Tail(msgs))

JournalLines(j) == [i \in 1..Len(j) |-> <<PyStr(j[i][1]), PyStr(j[i][2])>>]
Printed(rf, j) ==
    <<[kind |-> "livraison", text |-> rf]>>
    \o (IF j # <<>> THEN <<[kind |-> "journal", lines |-> JournalLines(j)]>> ELSE <<>>)

\* main's return value: 1 without credential (line 441), 0 when run_agent
\* returns (line 456), 1 when it raises (lines 458-466)
MainExitCodeZero(outcome) == 0
MainExitCode(outcome) == IF outcome = "returned" THEN 0 ELSE 1

\* ---------------------------------------------------------------- actions
\* main, lines 436-441: no credential
MainNoKey ==
    /\ pc = "main"
    /\ ~api_key
    /\ pc' = "exit"
    /\ exit_code' = MainExitCode("no_key")
    /\ UNCHANGED <<api_key, max_iterations, messages, iteration, reponse_finale, response,
                   journal_chantier, requests, received, sent, ret, stdout, runs,
                   earlier_blocks>>

\* main, line 450, and run_agent, lines 274-293
MainCallRunAgent ==
    /\ pc = "main"
    /\ api_key
    /\ messages' = <<[role |-> "user", text |-> Task]>>
    /\ iteration' = 0
    /\ reponse_finale' = ""
    /\ runs' = runs + 1
    /\ pc' = "while"
    /\ UNCHANGED <<api_key, max_iterations, response, journal_chantier, requests,
                   received, sent, ret, stdout, exit_code, earlier_blocks>>

\* lines 296-310: the loop test passes, the counter is incremented and the
\* request is sent with the whole transcript
LoopTestLax(it, maxit) == it <= maxit
LoopTest(it, maxit) == it < maxit

SendRequest ==
    /\ pc = "while"
    /\ LoopTest(iteration, max_iterations)
    /\ iteration' = iteration + 1
    /\ requests' = requests + 1
    /\ sent' = messages
    /\ pc' = "create"
    /\ UNCHANGED <<api_key, max_iterations, messages, reponse_finale, response, received,
                   journal_chantier, ret, stdout, exit_code, runs,
                   earlier_blocks>>

\* lines 296, 375-380: the loop test fails
LoopExhausted ==
    /\ pc = "while"
    /\ ~LoopTest(iteration, max_iterations)
    /\ ret' = [kind |-> "value", value |-> PostLoop(iteration, max_iterations, reponse_finale)]
    /\ pc' = "returned"
    /\ UNCHANGED <<api_key, max_iterations, messages, iteration, reponse_finale, response,
                   journal_chantier, requests, received, sent, stdout, exit_code, runs,
                   earlier_blocks>>

\* lines 316-332, 375-380: stop_reason == "end_turn"
RespondEndTurn ==
    /\ pc = "create"
    /\ received' = received + 1
    /\ \E blocks \in FinalContents :
        LET content == Content(blocks, iteration)
            rf == ExtractText(content, reponse_finale)
        IN  /\ response' = [stop_reason |-> "end_turn", content |-> content]
            /\ reponse_finale' = rf
            /\ stdout' = stdout \o Printed(rf, journal_chantier)
            /\ ret' = [kind |-> "value", value |-> PostLoop(iteration, max_iterations, rf)]
    /\ pc' = "returned"
    /\ UNCHANGED <<api_key, max_iterations, messages, iteration, journal_chantier,
                   requests, sent, exit_code, runs,
                   earlier_blocks>>

\* lines 335-368: stop_reason == "tool_use"
RespondToolUse ==
    /\ pc = "create"
    /\ received' = received + 1
    /\ \E n \in 0..MaxBlocks :
        /\ earlier_blocks + TotalBlocks(messages) + n <= MaxTotalBlocks
        /\ \E blocks \in [1..n -> ToolUseBlocks] :
            LET content == Content(blocks, iteration)
                run == ToolLoop(content, 1, journal_chantier, <<>>)
            IN  /\ response' = [stop_reason |-> "tool_use", content |-> content]
                /\ messages' = AppendTurns(messages, content, run.tool_results)
                /\ journal_chantier' = run.journal
    /\ pc' = "while"
    /\ UNCHANGED <<api_key, max_iterations, iteration, reponse_finale, requests, sent,
                   ret, stdout, exit_code, runs,
                   earlier_blocks>>

\* lines 371-380: any other stop_reason
RespondUnexpected ==
    /\ pc = "create"
    /\ received' = received + 1
    /\ \E sig \in UnexpectedSignals, blocks \in FinalContents :
        response' = [stop_reason |-> sig, content |-> Content(blocks, iteration)]
    /\ ret' = [kind |-> "value", value |-> PostLoop(iteration, max_iterations, reponse_finale)]
    /\ pc' = "returned"
    /\ UNCHANGED <<api_key, max_iterations, messages, iteration, reponse_finale,
                   journal_chantier, requests, sent, stdout, exit_code, runs,
                   earlier_blocks>>

\* lines 304-310: client.messages.create raises; run_agent has no handler
CreateFailsRetry == "while"
CreateFailsBlocks == "create"
CreateFails == "raised"

TransportFailure ==
    /\ pc = "create"
    /\ \E e \in TransportFailures : ret' = [kind |-> "exception", exception |-> e]
    /\ pc' = CreateFails
    /\ UNCHANGED <<api_key, max_iterations, messages, iteration, reponse_finale, response,
                   journal_chantier, requests, received, sent, stdout, exit_code, runs,
                   earlier_blocks>>

\* main, line 456
MainReturn ==
    /\ pc = "returned"
    /\ exit_code' = MainExitCode("returned")
    /\ pc' = "exit"
    /\ UNCHANGED <<api_key, max_iterations, messages, iteration, reponse_finale, response,
                   journal_chantier, requests, received, sent, ret, stdout, runs,
                   earlier_blocks>>

\* main, lines 458-466
MainExcept ==
    /\ pc = "raised"
    /\ exit_code' = MainExitCode("raised")
    /\ pc' = "exit"
    /\ UNCHANGED <<api_key, max_iterations, messages, iteration, reponse_finale, response,
                   journal_chantier, requests, received, sent, ret, stdout, runs,
                   earlier_blocks>>

Next ==
    \/ MainNoKey
    \/ MainCallRunAgent
    \/ SendRequest
    \/ LoopExhausted
    \/ RespondEndTurn
    \/ RespondToolUse
    \/ RespondUnexpected
    \/ TransportFailure
    \/ MainReturn
    \/ MainExcept

Spec == Init /\ [][Next]_vars

\* The program takes its next step whenever it has one, and every request
\* sent to the completion service ends with a response or a failure.
FairSpec ==
    /\ Spec
    /\ WF_vars(MainNoKey \/ MainCallRunAgent \/ MainReturn \/ MainExcept)
    /\ WF_vars(SendRequest \/ LoopExhausted)
    /\ WF_vars(RespondEndTurn \/ RespondToolUse \/ RespondUnexpected \/ TransportFailure)

\* run_agent, lines 274-293, called again by the same process after the
\* previous call has returned or raised: fresh locals, same module globals
CallRunAgentAgain ==
    /\ pc \in {"returned", "raised"}
    /\ runs < MaxRuns
    /\ runs' = runs + 1
    /\ earlier_blocks' = earlier_blocks + TotalBlocks(messages)
    /\ messages' = <<[role |-> "user", text |-> Task]>>
    /\ iteration' = 0
    /\ reponse_finale' = ""
    /\ response' = NoResponse
    /\ requests' = 0
    /\ received' = 0
    /\ sent' = <<>>
    /\ ret' = NoReturn
    /\ pc' = "while"
    /\ UNCHANGED <<api_key, max_iterations, journal_chantier, stdout, exit_code>>

NextRuns == Next \/ CallRunAgentAgain

SpecRuns == Init /\ [][NextRuns]_vars

\* ------------------------------------------------------- reading the state
\* the tool_use blocks of a response, in the order listed
ToolUsesOf(content) == SelectSeq(content, LAMBDA b : b.type = "tool_use")
IdsOf(blocks) == [k \in 1..Len(blocks) |-> blocks[k].id]
ResultIdsOf(turn) == [k \in 1..Len(turn.content) |-> turn.content[k].tool_use_id]
Max0(n) == IF n < 0 THEN 0 ELSE n

\* run_agent has returned a value / how the loop was left
Returned == ret.kind = "value"
\* run_agent has been called (it is running, or it has returned or raised)
InRunAgent == pc \in {"while", "create", "returned", "raised"} \/ ret.kind # "none"
LeftByEndTurn == Returned /\ response.stop_reason = "end_turn"
LeftByUnexpected == Returned /\ response.stop_reason \in UnexpectedSignals
LeftByLoopTest == Returned /\ response.stop_reason \in {"none", "tool_use"}

\* the last two turns of transcript m answer the response r
AnswersResponse(m, r) ==
    /\ Len(m) >= 2
    /\ m[Len(m) - 1] = [role |-> "assistant", content |-> r.content]
    /\ m[Len(m)].role = "user"
    /\ \A k \in 1..Len(m[Len(m)].content) : m[Len(m)].content[k].type = "tool_result"
    /\ ResultIdsOf(m[Len(m)]) = IdsOf(ToolUsesOf(r.content))

\* ------------------------------------------------------------------ claims
\* C1: after a response with the tool_use signal, the transcript ends with the
\* assistant turn followed by a tool-result turn holding exactly one
\* tool_result per tool_use block, with the block's id, in the listed order;
\* the transcript sent with the next request already ends with that turn.
C1_OneResultPerInvocation ==
    (response.stop_reason = "tool_use" /\ pc \in {"while", "create"}) =>
        /\ AnswersResponse(messages, response)
        /\ (pc = "create" => AnswersResponse(sent, response))

C1_Witness ==
    /\ pc = "create"
    /\ requests = 2
    /\ response.stop_reason = "tool_use"
    /\ Len(response.content) = 2
    /\ Len(ToolUsesOf(response.content)) = 1
    /\ Len(sent[Len(sent)].content) = 1

\* C2 as stated: the counter and the number of requests never exceed the
\* configured maximum N, and after DONE or FORCED_STOP no request is sent.
C2_Original ==
    /\ [](InRunAgent => (iteration <= max_iterations /\ requests <= max_iterations))
    /\ [][Returned => (requests' = requests /\ pc' # "create")]_vars

\* C2 amended: the counter and the number of requests never exceed max(N, 0),
\* and after DONE or FORCED_STOP no request is sent.
C2_IterationBound ==
    /\ [](InRunAgent =>
            (iteration <= Max0(max_iterations) /\ requests <= Max0(max_iterations)))
    /\ [][Returned => (requests' = requests /\ pc' # "create")]_vars

C2_Witness ==
    /\ pc = "exit"
    /\ Returned
    /\ max_iterations >= 2
    /\ requests = max_iterations
    /\ iteration = max_iterations

\* C3 as stated: with N >= 0, a run that never receives end_turn returns
\* after exactly N iterations and N requests with the forced-stop sentinel.
C3_Original ==
    (Returned /\ max_iterations >= 0 /\ response.stop_reason # "end_turn") =>
        /\ iteration = max_iterations
        /\ requests = max_iterations
        /\ ret.value = Sentinel

\* C3 amended: with N >= 0, a run in which every response carries the tool_use
\* signal (no end_turn, no other signal, no transport failure) returns after
\* exactly N iterations and N requests with the forced-stop sentinel; no run
\* sends an (N+1)-th request.
C3_ForcedStopAfterN ==
    /\ max_iterations >= 0 => requests <= max_iterations
    /\ (LeftByLoopTest /\ max_iterations >= 0) =>
            /\ iteration = max_iterations
            /\ requests = max_iterations
            /\ ret.value = Sentinel

C3_Witness ==
    /\ LeftByLoopTest
    /\ max_iterations >= 2
    /\ response.stop_reason = "tool_use"
    /\ Len(messages) = 1 + 2 * max_iterations

\* C4: when a response carries end_turn, run_agent returns the text of the
\* first text block of that response ("" when there is none), never the
\* forced-stop sentinel.
C4_EndTurnDeliverable ==
    LeftByEndTurn =>
        /\ ret.value = (IF \E k \in 1..Len(response.content) : response.content[k].type = "text"
                        THEN SelectSeq(response.content, LAMBDA b : b.type = "text")[1].text
                        ELSE "")
        /\ ret.value # Sentinel

\* C5: when a response carries a signal other than end_turn and tool_use,
\* run_agent appends nothing, runs no tool, sends no further request and
\* returns an empty deliverable.
C5_UnexpectedSignalEmpty ==
    LeftByUnexpected =>
        /\ ret.value = ""
        /\ messages = sent
        /\ requests = iteration

\* what a reader of the transcript sees in a turn: a payload that still
\* pointed to the journal would show the journal as it is when read
Deref(v, j) ==
    IF "journal_ref" \in DOMAIN v
    THEN [status |-> v.status, cle |-> v.cle, journal |-> j]
    ELSE v
ObservedTurn(turn, j) ==
    IF "content" \in DOMAIN turn /\ turn.role = "user"
    THEN [role |-> "user",
          content |-> [k \in 1..Len(turn.content) |->
                         [type |-> turn.content[k].type,
                          tool_use_id |-> turn.content[k].tool_use_id,
                          content |-> [json |-> Deref(turn.content[k].content.json, j)]]]]
    ELSE turn

\* the tool-result turn that answers the last response, and its payloads
LastResults == messages[Len(messages)].content
Payload(k) == LastResults[k].content.json
IsErrorPayload(v, block) ==
    /\ DOMAIN v = {"erreur", "outil", "input"}
    /\ v.outil = block.name
    /\ v.input = block.input
JustRanTools == pc = "while" /\ response.stop_reason = "tool_use"

RegisteredNames == {"calculer_volume", "estimer_cout_reseau", "memo_chantier"}

\* C6: the transcript only grows, and a turn already in it reads the same
\* after every step, whatever is written to the journal afterwards.
C6_TranscriptAppendOnly ==
    [][/\ Len(messages') >= Len(messages)
       /\ \A i \in 1..Len(messages) :
            ObservedTurn(messages'[i], journal_chantier')
                = ObservedTurn(messages[i], journal_chantier)]_vars

C6_Witness ==
    /\ Len(messages) = 5
    /\ Len(messages[3].content) = 1
    /\ "journal" \in DOMAIN messages[3].content[1].content.json
    /\ messages[3].content[1].content.json.journal = <<<<Str("k1"), Str("v1")>>>>
    /\ journal_chantier = <<<<Str("k1"), Str("v2")>>>>

\* C7: a tool name that is not exactly a registered name yields the payload
\* {erreur: "Outil inconnu : <name>"}, writes nothing to the journal, and the
\* payload is appended as an ordinary tool_result while the loop goes on.
C7_UnknownToolAbsorbed ==
    [][(received' # received /\ response'.stop_reason = "tool_use") =>
        LET tu == ToolUsesOf(response'.content)
            res == messages'[Len(messages')].content
        IN  /\ pc' = "while"
            /\ ret' = ret
            /\ Len(res) = Len(tu)
            /\ \A i \in 1..Len(tu) :
                 tu[i].name \notin RegisteredNames =>
                    /\ res[i].type = "tool_result"
                    /\ res[i].content.json = [erreur |-> <<"Outil inconnu : ", tu[i].name>>]
            /\ (\A i \in 1..Len(tu) : tu[i].name \notin RegisteredNames) =>
                    journal_chantier' = journal_chantier]_vars

C7_Witness ==
    /\ pc = "create"
    /\ requests = 2
    /\ response.stop_reason = "tool_use"
    /\ Len(sent[3].content) = 1
    /\ sent[3].content[1].content.json = [erreur |-> <<"Outil inconnu : ", "Memo_Chantier">>]
    /\ journal_chantier = <<>>

\* the declared type of a tool parameter (input_schema in TOOLS)
SchemaType(p) ==
    IF p \in {"cle", "valeur", "materiau", "type_reseau"} THEN "str" ELSE "num"
MissingRequired(block) ==
    \/ block.name = "memo_chantier" /\ ~({"cle", "valeur"} \subseteq DOMAIN block.input)
    \/ block.name = "calculer_volume"
        /\ ~({"longueur_m", "largeur_m", "profondeur_m"} \subseteq DOMAIN block.input)
    \/ block.name = "estimer_cout_reseau"
        /\ ~({"type_reseau", "longueur_m"} \subseteq DOMAIN block.input)
WrongType(block) == \E p \in DOMAIN block.input : block.input[p].t # SchemaType(p)

\* C8: for a registered tool, an input with a required parameter missing or
\* a parameter of the wrong type yields the error payload
\* {erreur, outil, input} and the loop goes on.
C8_BadInputIsError ==
    JustRanTools =>
        LET tu == ToolUsesOf(response.content)
        IN  \A i \in 1..Len(tu) :
              (tu[i].name \in RegisteredNames /\ (MissingRequired(tu[i]) \/ WrongType(tu[i])))
                  => IsErrorPayload(Payload(i), tu[i])

\* C9: when a request raises, run_agent ends there with the exception: no
\* request follows, nothing is appended, the journal is untouched and no value
\* is returned; a step that runs tools never ends run_agent with an exception.
C9_TransportFailurePropagates ==
    [][/\ ret'.kind = "exception" =>
            /\ pc' \in {"raised", "exit"}
            /\ ret'.exception \in TransportFailures
            /\ requests' = requests
            /\ messages' = messages
            /\ messages' = sent'
            /\ journal_chantier' = journal_chantier
       /\ (received' # received /\ response'.stop_reason = "tool_use") =>
            (ret' = ret /\ pc' = "while")]_vars

C9_Witness ==
    /\ pc = "raised"
    /\ requests = 2
    /\ Len(messages) = 3
    /\ Len(messages[3].content) = 1
    /\ "erreur" \in DOMAIN messages[3].content[1].content.json
    /\ "outil" \in DOMAIN messages[3].content[1].content.json

\* the memo_chantier invocations of a response that write the journal
WritesOf(content) ==
    SelectSeq(content, LAMBDA b : /\ b.type = "tool_use"
                                  /\ b.name = "memo_chantier"
                                  /\ DOMAIN b.input = {"cle", "valeur"}
                                  /\ b.input.cle.t # "arr")
UniqueKeys(d) == \A a, b \in 1..Len(d) : d[a][1] = d[b][1] => a = b

\* C10: after every step the journal has at most one entry per key; a key
\* written during the step holds the value of the last write to it, and every
\* other key keeps its entry.
C10_JournalLastWriteWins ==
    [][LET w == IF received' # received /\ response'.stop_reason = "tool_use"
                THEN WritesOf(response'.content) ELSE <<>>
           written == {w[i].input.cle : i \in 1..Len(w)}
       IN  /\ UniqueKeys(journal_chantier')
           /\ DictKeys(journal_chantier') = DictKeys(journal_chantier) \cup written
           /\ \A k \in written :
                LET last == CHOOSE i \in 1..Len(w) :
                                /\ w[i].input.cle = k
                                /\ \A m \in (i + 1)..Len(w) : w[m].input.cle # k
                IN  DictGet(journal_chantier', k) = w[last].input.valeur
           /\ \A k \in DictKeys(journal_chantier) \ written :
                DictGet(journal_chantier', k) = DictGet(journal_chantier, k)]_vars

C10_Witness ==
    /\ Len(messages) = 5
    /\ messages[2].content = <<[type |-> "tool_use", id |-> 11, name |-> "memo_chantier",
                                input |-> [cle |-> Str("k1"), valeur |-> Str("v1")]]>>
    /\ messages[4].content = <<[type |-> "tool_use", id |-> 21, name |-> "memo_chantier",
                                input |-> [cle |-> Str("k1"), valeur |-> Str("v2")]]>>
    /\ journal_chantier = <<<<Str("k1"), Str("v2")>>>>

\* the journal writes recorded in a transcript, oldest first
RECURSIVE TranscriptWrites(_)
TranscriptWrites(m) ==
    IF m = <<>> THEN <<>>
    ELSE (IF m[1].role = "assistant" THEN WritesOf(m[1].content) ELSE <<>>)
         \o TranscriptWrites(Tail(m))
LastValueWritten(w, k) ==
    w[CHOOSE i \in 1..Len(w) :
        /\ w[i].input.cle = k
        /\ \A m \in (i + 1)..Len(w) : w[m].input.cle # k].input.valeur

\* C11: when run_agent has ended - by forced stop, by an unexpected signal or
\* by a transport failure - every key written through memo_chantier during
\* the run is in the journal with the last value written to it, and the step
\* that ends the run and the steps after it leave the journal as it is.
C11_JournalWritesPersist ==
    /\ [](ret.kind # "none" =>
            LET w == TranscriptWrites(messages)
            IN  \A i \in 1..Len(w) :
                    /\ DictHas(journal_chantier, w[i].input.cle)
                    /\ DictGet(journal_chantier, w[i].input.cle)
                            = LastValueWritten(w, w[i].input.cle))
    /\ [][ret'.kind # "none" => journal_chantier' = journal_chantier]_vars

C11_Witness ==
    /\ ret.kind = "exception"
    /\ pc = "exit"
    /\ Len(TranscriptWrites(messages)) = 2
    /\ journal_chantier = <<<<Str("k1"), Str("v2")>>>>

\* C12: every key and every value of the journal is a string.
C12_JournalStrToStr ==
    \A i \in 1..Len(journal_chantier) :
        /\ journal_chantier[i][1].t = "str"
        /\ journal_chantier[i][2].t = "str"

\* C13: when run_agent has returned, the deliverable it returned has been
\* written to standard output, and after DONE the journal has been rendered.
C13_DeliverableOnStdout ==
    Returned =>
        /\ \E i \in 1..Len(stdout) : stdout[i] = [kind |-> "livraison", text |-> ret.value]
        /\ ((LeftByEndTurn \/ LeftByUnexpected) /\ journal_chantier # <<>>) =>
             \E i \in 1..Len(stdout) :
                stdout[i] = [kind |-> "journal", lines |-> JournalLines(journal_chantier)]

\* C14: main exits with 0 whenever run_agent returned (natural completion,
\* unexpected signal or forced stop) and with 1 when the credential is missing
\* or run_agent raised (an authentication failure among others); without the
\* credential run_agent is never entered: no request, no transcript, no tool
\* execution.
C14_ExitCodes ==
    /\ pc = "exit" =>
          /\ Returned => exit_code = 0
          /\ ret.kind = "exception" => exit_code = 1
          /\ ~api_key => exit_code = 1
          /\ exit_code \in {0, 1}
    /\ ~api_key =>
          /\ pc \in {"main", "exit"}
          /\ runs = 0 /\ requests = 0 /\ received = 0
          /\ messages = <<>> /\ sent = <<>>
          /\ journal_chantier = <<>>
          /\ ret = NoReturn

C14_Witness ==
    /\ pc = "exit"
    /\ ret = [kind |-> "exception", exception |-> "AuthenticationError"]
    /\ requests = 2
    /\ journal_chantier # <<>>
    /\ exit_code = 1

\* the largest member of a non-empty set of numbers
MaxOf(S) == CHOOSE m \in S : \A n \in S : n <= m

\* C15: in the step that runs the tools of a response, the invocations run in
\* the order listed: the payload of the k-th invocation, when it is a
\* successful memo_chantier, holds the journal as it is after the successful
\* writes among invocations 1..k and none of the later ones, a key written
\* twice holds the later-listed value, and the journal after the step is the
\* one after all of them.
C15_ToolsRunInListedOrder ==
    [][(received' # received /\ response'.stop_reason = "tool_use") =>
        LET uses == ToolUsesOf(response'.content)
            res == messages'[Len(messages')].content
            Wrote(i) == /\ uses[i].name = "memo_chantier"
                        /\ "status" \in DOMAIN res[i].content.json
            Writers(c, k) == {i \in 1..k : Wrote(i) /\ uses[i].input.cle = c}
            KeysAfter(k) == DictKeys(journal_chantier)
                            \cup {uses[i].input.cle : i \in {m \in 1..k : Wrote(m)}}
            ValueAfter(c, k) == IF Writers(c, k) = {}
                                THEN DictGet(journal_chantier, c)
                                ELSE uses[MaxOf(Writers(c, k))].input.valeur
            Agrees(j, k) == /\ UniqueKeys(j)
                            /\ DictKeys(j) = KeysAfter(k)
                            /\ \A c \in DictKeys(j) : DictGet(j, c) = ValueAfter(c, k)
            \* the payload is JSON text: one entry per key of the journal,
            \* a key that is a number written as a string
            Shows(o, k) == /\ Len(o) = Cardinality(KeysAfter(k))
                           /\ \A c \in KeysAfter(k) :
                                 \E i \in 1..Len(o) : o[i] = <<JsonKey(c), ValueAfter(c, k)>>
        IN  /\ Len(res) = Len(uses)
            /\ \A k \in 1..Len(uses) :
                    /\ res[k].tool_use_id = uses[k].id
                    /\ Wrote(k) => Shows(res[k].content.json.journal, k)
            /\ Agrees(journal_chantier', Len(uses))]_vars

C15_Witness ==
    /\ JustRanTools
    /\ Len(messages) = 3
    /\ Len(messages[3].content) = 2
    /\ messages[3].content[1].content.json
            = [status |-> "memorise", cle |-> Str("k1"),
               journal |-> <<<<Str("k1"), Str("v1")>>>>]
    /\ messages[3].content[2].content.json
            = [status |-> "memorise", cle |-> Str("k2"),
               journal |-> <<<<Str("k1"), Str("v1")>>, <<Str("k2"), Num(5)>>>>]
    /\ journal_chantier = <<<<Str("k1"), Str("v1")>>, <<Str("k2"), Num(5)>>>>

\* C16: when every request is eventually answered by a response or a failure,
\* every call of run_agent ends - by returning or by raising - whatever
\* max_iterations and whatever the responses, and by then it has sent at most
\* max(N, 0) requests.
C16_RunAgentTerminates ==
    /\ (pc = "while") ~> (pc \in {"returned", "raised"})
    /\ [](pc \in {"returned", "raised"} => requests <= Max0(max_iterations))

\* a run in which both responses asked for tools, stopped by the budget
C16_Witness ==
    /\ pc = "returned"
    /\ max_iterations = 2
    /\ requests = 2
    /\ received = 2
    /\ response.stop_reason = "tool_use"
    /\ Len(messages) = 5
    /\ ret = [kind |-> "value", value |-> Sentinel]

\* C17: while the k-th request of a run is in flight, the transcript sent is
\* the whole transcript, it has 2k-1 turns, the first is the user turn with
\* the mission, and turns 2i, 2i+1 are an assistant turn and the user turn
\* whose tool_results answer, in order, the tool_use blocks of that assistant
\* turn.
C17_TranscriptShapeAtRequest ==
    pc = "create" =>
        /\ requests >= 1
        /\ sent = messages
        /\ Len(sent) = 2 * requests - 1
        /\ sent[1] = [role |-> "user", text |-> Task]
        /\ \A i \in 1..(requests - 1) :
              /\ sent[2 * i].role = "assistant"
              /\ sent[2 * i + 1].role = "user"
              /\ ResultIdsOf(sent[2 * i + 1]) = IdsOf(ToolUsesOf(sent[2 * i].content))
        /\ sent[Len(sent)].role = "user"

C17_Witness ==
    /\ pc = "create"
    /\ requests = 2
    /\ Len(sent) = 3
    /\ Len(sent[2].content) = 2
    /\ sent[2].content[1].type = "text"
    /\ sent[2].content[2].type = "tool_use"
    /\ Len(sent[3].content) = 1

\* invocations tried against every reachable journal: the ones the service
\* sends in the model and one with a parameter the tool does not have
ErrorProbes ==
    ToolCalls \cup {ToolUse("memo_chantier", [cle |-> Str("k3"), valeur |-> Str("v1"),
                                               note |-> Str("x")])}

\* C18: an invocation answered with an error payload leaves the journal as
\* it was: whatever the journal, executer_outil never both writes and reports
\* an error, and a step in which every invocation failed does not change the
\* journal.
C18_ErrorLeavesJournal ==
    /\ [](\A call \in ErrorProbes :
            LET r == executer_outil(call.name, call.input, journal_chantier)
            IN  "erreur" \in DOMAIN r.result_str.json => r.journal = journal_chantier)
    /\ [][(/\ received' # received
           /\ response'.stop_reason = "tool_use"
           /\ \A k \in 1..Len(messages'[Len(messages')].content) :
                 "erreur" \in DOMAIN messages'[Len(messages')].content[k].content.json)
          => journal_chantier' = journal_chantier]_vars

\* a key that cannot be hashed is refused after an earlier write
C18_Witness ==
    /\ JustRanTools
    /\ Len(messages) = 5
    /\ messages[4].content
            = <<[type |-> "tool_use", id |-> 21, name |-> "memo_chantier",
                 input |-> [cle |-> Arr, valeur |-> Str("v1")]]>>
    /\ Len(LastResults) = 1
    /\ IsErrorPayload(Payload(1), messages[4].content[1])
    /\ journal_chantier = <<<<Str("k1"), Str("v1")>>>>

\* C19: no step removes a key of the journal, the start of another run_agent
\* call included: that call starts with the journal as the earlier call left
\* it, every memo_chantier payload holds at least the keys the journal had
\* before the step, and the summary printed at the end is the whole journal.
C19_JournalNeverShrinks ==
    [][/\ DictKeys(journal_chantier) \subseteq DictKeys(journal_chantier')
       /\ runs' # runs => journal_chantier' = journal_chantier
       /\ (received' # received /\ response'.stop_reason = "tool_use") =>
             \A k \in 1..Len(messages'[Len(messages')].content) :
                LET v == messages'[Len(messages')].content[k].content.json
                IN  "journal" \in DOMAIN v =>
                        {JsonKey(c) : c \in DictKeys(journal_chantier)}
                            \subseteq DictKeys(v.journal)
       /\ (stdout' # stdout /\ journal_chantier # <<>>) =>
             stdout'[Len(stdout')]
                = [kind |-> "journal", lines |-> JournalLines(journal_chantier)]]_vars

\* the second call used no tool and its summary shows the first call's entry
C19_Witness ==
    /\ runs = 2
    /\ pc = "returned"
    /\ response.stop_reason = "end_turn"
    /\ messages = <<[role |-> "user", text |-> Task]>>
    /\ journal_chantier = <<<<Str("k1"), Str("v1")>>>>
    /\ stdout # <<>>
    /\ stdout[Len(stdout)] = [kind |-> "journal", lines |-> <<<<"k1", "v1">>>>]
====
